---- MODULE Spec2Model ----
(***************************************************************************)
(* Ledger core of the wallet platform: the wallet account, the top-up      *)
(* request, the payment, the transaction and the safe deposit documents    *)
(* (mongoose models), their instance methods, their pre-save identifier    *)
(* allocators and the unique indexes of their collections.                 *)
(*                                                                         *)
(* A document method is an operator from the document (and its arguments)  *)
(* to an outcome [thrown, doc]: thrown is the message of the Error the     *)
(* method throws (NoError when it returns), doc the document afterwards.   *)
(* Dates are readings of a clock that starts at 1; NullDate is the schema  *)
(* default null. Strings the code takes apart (identifiers) are sequences  *)
(* of one-character strings.                                               *)
(***************************************************************************)
EXTENDS Integers, Sequences, FiniteSets, TLC

VARIABLES
    wallet,       \* the wallet document: balances and status
    request,      \* the top-up request document
    payment,      \* the payment document
    transaction,  \* the transaction (ledger entry) document
    now,          \* the clock new Date() reads
    call,         \* the last method call: [method, arg, thrown]
    store,        \* collection name -> sequence of persisted documents
    saves,        \* save() calls in flight, one per request handler
    safe,         \* the safe-deposit document
    copies,       \* the wallet document each request handler has loaded
    ledger,       \* the transactions collection: sequence of ledger entries
    stats         \* what the last getUserStats call returned

vars == <<wallet, request, payment, transaction, now, call, store, saves,
         safe, copies, ledger, stats>>

-----------------------------------------------------------------------------
(* Bounds of the model. *)

\* largest sub-balance the model lets a credit reach
MaxBalance == 300
\* last reading of the clock
MaxClock == 3

\* amounts handed to the wallet mutators: negative, zero, and the two of
\* scenario A (credit 100, debit 150)
Amounts == {-50, 0, 100, 150}

-----------------------------------------------------------------------------
(* Outcomes. *)

NoError == "none"
NullDate == 0
NullString == "null"

Returned(doc) == [thrown |-> NoError, doc |-> doc]
Threw(message, doc) == [thrown |-> message, doc |-> doc]

\* The error taxonomy of the design, by the message the code throws.
ErrorKind(message) ==
    CASE message = "Amount cannot be negative" -> "InvalidAmount"
      [] message = "Insufficient balance in primary wallet" -> "InsufficientFunds"
      [] message = "Insufficient balance in safe wallet" -> "InsufficientFunds"
      [] message = "E11000 duplicate key error" -> "DuplicateIdentifier"
      [] OTHER -> "none"

-----------------------------------------------------------------------------
(* Wallet account: src/models/wallet.model.ts *)

WalletStatuses == {"ACTIVE", "BLOCKED", "FROZEN"}

\* a wallet as the schema defaults construct it, for the userId and walletId
\* its creator gives
NewWallet ==
    [userId |-> "u1", walletId |-> "W2511A1B2C3D4",
     primaryWalletBalance |-> 0, safeWalletBalance |-> 0, status |-> "ACTIVE"]

addToPrimaryBalance(w, amount) ==
    IF amount < 0
    THEN Threw("Amount cannot be negative", w)
    ELSE Returned([w EXCEPT !.primaryWalletBalance = @ + amount])

\* subtractFromPrimaryBalance without its check of the balance
subtractFromPrimaryBalance_Overdraw(w, amount) ==
    IF amount < 0
    THEN Threw("Amount cannot be negative", w)
    ELSE Returned([w EXCEPT !.primaryWalletBalance = @ - amount])

\* subtractFromPrimaryBalance that debits before it checks the balance
subtractFromPrimaryBalance_DebitThenThrow(w, amount) ==
    IF amount < 0
    THEN Threw("Amount cannot be negative", w)
    ELSE IF w.primaryWalletBalance < amount
    THEN Threw("Insufficient balance in primary wallet",
               [w EXCEPT !.primaryWalletBalance = @ - amount])
    ELSE Returned([w EXCEPT !.primaryWalletBalance = @ - amount])

subtractFromPrimaryBalance(w, amount) ==
    IF amount < 0
    THEN Threw("Amount cannot be negative", w)
    ELSE IF w.primaryWalletBalance < amount
    THEN Threw("Insufficient balance in primary wallet", w)
    ELSE Returned([w EXCEPT !.primaryWalletBalance = @ - amount])

\* addToSafeBalance crediting the primary balance
addToSafeBalance_WrongSubBalance(w, amount) ==
    IF amount < 0
    THEN Threw("Amount cannot be negative", w)
    ELSE Returned([w EXCEPT !.primaryWalletBalance = @ + amount])

addToSafeBalance(w, amount) ==
    IF amount < 0
    THEN Threw("Amount cannot be negative", w)
    ELSE Returned([w EXCEPT !.safeWalletBalance = @ + amount])

\* subtractFromSafeBalance refusing a debit of the whole balance (<= for <)
subtractFromSafeBalance_OffByOne(w, amount) ==
    IF amount < 0
    THEN Threw("Amount cannot be negative", w)
    ELSE IF w.safeWalletBalance <= amount
    THEN Threw("Insufficient balance in safe wallet", w)
    ELSE Returned([w EXCEPT !.safeWalletBalance = @ - amount])

\* subtractFromSafeBalance refusing a wallet that is not ACTIVE
subtractFromSafeBalance_ActiveOnly(w, amount) ==
    IF w.status # "ACTIVE"
    THEN Threw("Wallet is not active", w)
    ELSE IF amount < 0
    THEN Threw("Amount cannot be negative", w)
    ELSE IF w.safeWalletBalance < amount
    THEN Threw("Insufficient balance in safe wallet", w)
    ELSE Returned([w EXCEPT !.safeWalletBalance = @ - amount])

subtractFromSafeBalance(w, amount) ==
    IF amount < 0
    THEN Threw("Amount cannot be negative", w)
    ELSE IF w.safeWalletBalance < amount
    THEN Threw("Insufficient balance in safe wallet", w)
    ELSE Returned([w EXCEPT !.safeWalletBalance = @ - amount])

getTotalBalance(w) == w.primaryWalletBalance + w.safeWalletBalance

isWalletActive(w) == w.status = "ACTIVE"

\* block that also empties the wallet
block_ClearsBalances(w) ==
    Returned([w EXCEPT !.status = "BLOCKED", !.primaryWalletBalance = 0,
                       !.safeWalletBalance = 0])

block(w) == Returned([w EXCEPT !.status = "BLOCKED"])

freeze(w) == Returned([w EXCEPT !.status = "FROZEN"])

activate(w) == Returned([w EXCEPT !.status = "ACTIVE"])

\* The record of a call: the method, its argument, what it threw.
Called(method, arg, outcome) ==
    [method |-> method, arg |-> arg, thrown |-> outcome.thrown]

\* The model follows a wallet only while its sub-balances are within MaxBalance.
WithinBalanceBound(w) ==
    /\ w.primaryWalletBalance <= MaxBalance
    /\ w.safeWalletBalance <= MaxBalance

InvokeAddToPrimaryBalance ==
    \E amount \in Amounts :
        LET outcome == addToPrimaryBalance(wallet, amount) IN
        /\ WithinBalanceBound(outcome.doc)
        /\ wallet' = outcome.doc
        /\ call' = Called("addToPrimaryBalance", amount, outcome)
        /\ UNCHANGED <<request, payment, transaction, now, store, saves, safe, copies, ledger, stats>>

InvokeSubtractFromPrimaryBalance ==
    \E amount \in Amounts :
        LET outcome == subtractFromPrimaryBalance(wallet, amount) IN
        /\ wallet' = outcome.doc
        /\ call' = Called("subtractFromPrimaryBalance", amount, outcome)
        /\ UNCHANGED <<request, payment, transaction, now, store, saves, safe, copies, ledger, stats>>

InvokeAddToSafeBalance ==
    \E amount \in Amounts :
        LET outcome == addToSafeBalance(wallet, amount) IN
        /\ WithinBalanceBound(outcome.doc)
        /\ wallet' = outcome.doc
        /\ call' = Called("addToSafeBalance", amount, outcome)
        /\ UNCHANGED <<request, payment, transaction, now, store, saves, safe, copies, ledger, stats>>

InvokeSubtractFromSafeBalance ==
    \E amount \in Amounts :
        LET outcome == subtractFromSafeBalance(wallet, amount) IN
        /\ wallet' = outcome.doc
        /\ call' = Called("subtractFromSafeBalance", amount, outcome)
        /\ UNCHANGED <<request, payment, transaction, now, store, saves, safe, copies, ledger, stats>>

InvokeBlock ==
    /\ wallet' = block(wallet).doc
    /\ call' = Called("block", 0, block(wallet))
    /\ UNCHANGED <<request, payment, transaction, now, store, saves, safe, copies, ledger, stats>>

InvokeFreeze ==
    /\ wallet' = freeze(wallet).doc
    /\ call' = Called("freeze", 0, freeze(wallet))
    /\ UNCHANGED <<request, payment, transaction, now, store, saves, safe, copies, ledger, stats>>

InvokeActivate ==
    /\ wallet' = activate(wallet).doc
    /\ call' = Called("activate", 0, activate(wallet))
    /\ UNCHANGED <<request, payment, transaction, now, store, saves, safe, copies, ledger, stats>>

-----------------------------------------------------------------------------
(* The clock that new Date() reads. *)

Tick ==
    /\ now < MaxClock
    /\ now' = now + 1
    /\ UNCHANGED <<wallet, request, payment, transaction, call, store, saves, safe, copies, ledger, stats>>

-----------------------------------------------------------------------------
(* Top-up request: src/unnamed/part_003 *)

SubAccounts == {"PRIMARY", "SAFE"}

\* amounts of a top-up request: the schema minimum and scenario B's 500
TopUpAmounts == {1, 500}

\* reasons handed to reject(reason) and fail(reason)
Reasons == {"r1", "r2"}

\* a top-up request as the schema defaults construct it
NewRequest(amount, target) ==
    [amount |-> amount, wallet |-> target, status |-> "PENDING",
     approvalTime |-> NullDate, rejectionTime |-> NullDate,
     rejectionReason |-> NullString]

approve(r, date) ==
    Returned([r EXCEPT !.status = "SUCCESS", !.approvalTime = date])

reject(r, reason, date) ==
    Returned([r EXCEPT !.status = "REJECTED", !.rejectionTime = date,
                       !.rejectionReason = reason])

InvokeApprove ==
    /\ request' = approve(request, now).doc
    /\ call' = Called("approve", 0, approve(request, now))
    /\ UNCHANGED <<wallet, payment, transaction, now, store, saves, safe, copies, ledger, stats>>

\* a reject that returns the requested amount out of the primary balance
InvokeReject_MovesFunds ==
    \E reason \in Reasons :
        /\ request' = reject(request, reason, now).doc
        /\ call' = Called("reject", reason, reject(request, reason, now))
        /\ wallet' = [wallet EXCEPT !.primaryWalletBalance = 0]
        /\ UNCHANGED <<payment, transaction, now, store, saves, safe, copies, ledger, stats>>

InvokeReject ==
    \E reason \in Reasons :
        /\ request' = reject(request, reason, now).doc
        /\ call' = Called("reject", reason, reject(request, reason, now))
        /\ UNCHANGED <<wallet, payment, transaction, now, store, saves, safe, copies, ledger, stats>>

-----------------------------------------------------------------------------
(* Payment: src/unnamed/part_002 *)

PaymentTypes == {"CC_PAYMENT", "BANK_TRANSFER", "OTHERS"}

\* amounts of a payment: the schema minimum and scenario D's 1000
PaymentAmounts == {10, 1000}

\* fees of a payment
PaymentFees == {1, 20}

\* a payment as the schema defaults construct it
NewPayment(type, amount, fee) ==
    [type |-> type, amount |-> amount, fee |-> fee, status |-> "PENDING",
     actionTime |-> NullDate, actionReason |-> NullString]

complete(p, date) ==
    Returned([p EXCEPT !.status = "COMPLETED", !.actionTime = date])

fail(p, reason, date) ==
    Returned([p EXCEPT !.status = "FAILED", !.actionTime = date,
                       !.actionReason = reason])

InvokeComplete ==
    /\ payment' = complete(payment, now).doc
    /\ call' = Called("complete", 0, complete(payment, now))
    /\ UNCHANGED <<wallet, request, transaction, now, store, saves, safe, copies, ledger, stats>>

InvokeFail ==
    \E reason \in Reasons :
        /\ payment' = fail(payment, reason, now).doc
        /\ call' = Called("fail", reason, fail(payment, reason, now))
        /\ UNCHANGED <<wallet, request, transaction, now, store, saves, safe, copies, ledger, stats>>

-----------------------------------------------------------------------------
(* Transaction (ledger entry): src/models/transactions.model.ts *)

TransactionTypes == {"CREDIT", "DEBIT"}

TransactionStatuses == {"PENDING", "COMPLETED", "FAILED", "CANCELLED"}

TransactionCategories ==
    {"WALLET_TOP_UP", "CC_PAYMENT", "BANK_TRANSFER_PAYMENT", "ADMIN_DEDUCTION",
     "WALLET_TRANSFER", "REFUND", "FEE_CHARGE", "REWARDS", "INTEREST_CREDIT",
     "SAFE_DEPOSIT", "SAFE_WITHDRAW"}

\* a transaction as the schema defaults construct it
NewTransaction(type, amount, category, target) ==
    [type |-> type, amount |-> amount, category |-> category,
     status |-> "PENDING", wallet |-> target]

markAsCompleted(t) == Returned([t EXCEPT !.status = "COMPLETED"])

markAsFailed(t) == Returned([t EXCEPT !.status = "FAILED"])

markAsCancelled(t) == Returned([t EXCEPT !.status = "CANCELLED"])

updateStatus(t, status) == Returned([t EXCEPT !.status = status])

InvokeMarkAsCompleted ==
    /\ transaction' = markAsCompleted(transaction).doc
    /\ call' = Called("markAsCompleted", 0, markAsCompleted(transaction))
    /\ UNCHANGED <<wallet, request, payment, now, store, saves, safe, copies, ledger, stats>>

InvokeMarkAsFailed ==
    /\ transaction' = markAsFailed(transaction).doc
    /\ call' = Called("markAsFailed", 0, markAsFailed(transaction))
    /\ UNCHANGED <<wallet, request, payment, now, store, saves, safe, copies, ledger, stats>>

InvokeMarkAsCancelled ==
    /\ transaction' = markAsCancelled(transaction).doc
    /\ call' = Called("markAsCancelled", 0, markAsCancelled(transaction))
    /\ UNCHANGED <<wallet, request, payment, now, store, saves, safe, copies, ledger, stats>>

InvokeUpdateStatus ==
    \E status \in TransactionStatuses :
        /\ transaction' = updateStatus(transaction, status).doc
        /\ call' = Called("updateStatus", status, updateStatus(transaction, status))
        /\ UNCHANGED <<wallet, request, payment, now, store, saves, safe, copies, ledger, stats>>

-----------------------------------------------------------------------------
(* Strings the code takes apart: sequences of one-character strings. *)

DigitChars == <<"0", "1", "2", "3", "4", "5", "6", "7", "8", "9">>

IsDigit(c) == \E i \in 1..10 : DigitChars[i] = c

\* the value of a digit character
DigitValue(c) == (CHOOSE i \in 1..10 : DigitChars[i] = c) - 1

\* String(n) of a non-negative integer
RECURSIVE StringOf(_)
StringOf(n) ==
    IF n < 10 THEN <<DigitChars[n + 1]>>
    ELSE StringOf(n \div 10) \o <<DigitChars[(n % 10) + 1]>>

\* s.padStart(width, pad)
RECURSIVE padStart(_, _, _)
padStart(s, width, pad) ==
    IF Len(s) >= width THEN s ELSE padStart(<<pad>> \o s, width, pad)

\* parseInt(s, 10) of a string of digits
RECURSIVE parseInt(_)
parseInt(s) ==
    IF Len(s) = 0 THEN 0
    ELSE 10 * parseInt(SubSeq(s, 1, Len(s) - 1)) + DigitValue(s[Len(s)])

\* s.substring(from), from counted from 0
substring(s, from) == SubSeq(s, from + 1, Len(s))

\* s.slice(from), from counted from 0
slice(s, from) == SubSeq(s, from + 1, Len(s))

\* the order of the characters identifiers are made of (their code units)
CharOrder ==
    <<"0", "1", "2", "3", "4", "5", "6", "7", "8", "9",
      "A", "B", "C", "D", "N", "O", "P", "S", "T", "U", "W", "X", "Y">>

CharCode(c) == CHOOSE i \in 1..Len(CharOrder) : CharOrder[i] = c

\* a < b in the order the store sorts strings by
RECURSIVE StringLess(_, _)
StringLess(a, b) ==
    IF Len(b) = 0 THEN FALSE
    ELSE IF Len(a) = 0 THEN TRUE
    ELSE IF a[1] = b[1] THEN StringLess(Tail(a), Tail(b))
    ELSE CharCode(a[1]) < CharCode(b[1])

\* a missing identifier (undefined, null): falsy
NullId == <<>>

-----------------------------------------------------------------------------
(* The calendar date new Date() gives: the last day of 2025. *)

Today == [fullYear |-> <<"2", "0", "2", "5">>, month |-> 11, date |-> 31]

\* yy, mm and dd as the pre-save hooks format them
yy(d) == slice(d.fullYear, 2)
mm(d) == padStart(StringOf(d.month + 1), 2, "0")
dd(d) == padStart(StringOf(d.date), 2, "0")
yymmdd(d) == yy(d) \o mm(d) \o dd(d)
yymm(d) == yy(d) \o mm(d)

\* values of uuidv4().substring(0, 8).toUpperCase(): random, so two draws
\* can be equal
Tokens ==
    {<<"0", "A", "1", "B", "2", "C", "3", "D">>,
     <<"9", "D", "8", "C", "7", "B", "6", "A">>}

-----------------------------------------------------------------------------
(* The collections and their unique indexes. *)

Collections ==
    {"safe", "transactions", "payments", "walletTopUpRequests", "wallets"}

Users == {"u1", "u2"}

\* the request handlers that create documents concurrently
Handlers == {"h1", "h2"}

\* most documents created in all (stored or being saved)
MaxDocs == 3

\* A persisted document of a collection: its identifier (safeId,
\* transactionId, paymentId, requestId or walletId), its owner and, for a
\* transaction, its type.
Document(id, userId, type) == [id |-> id, userId |-> userId, type |-> type]

Stored(collection) == {store[collection][i] : i \in 1..Len(store[collection])}

\* a collection whose indexes are not unique
DuplicateKey_NoIndex(collection, doc) == FALSE

\* The unique indexes of a collection reject the document: on the identifier
\* in every collection, and on userId as well in wallets.
DuplicateKey(collection, doc) ==
    \/ \E d \in Stored(collection) : d.id = doc.id
    \/ collection = "wallets" /\ \E d \in Stored(collection) : d.userId = doc.userId

-----------------------------------------------------------------------------
(* Safe deposit: src/models/safe.model.ts, the pre-save allocator. *)

\* /^SW\d{4}$/ and /^SW\d{8}$/
MatchesSW(id, digits) ==
    /\ Len(id) = 2 + digits
    /\ id[1] = "S"
    /\ id[2] = "W"
    /\ \A i \in 3..Len(id) : IsDigit(id[i])

\* The last of a non-empty set of strings of one length in ascending string
\* order (the first in the descending sort): among those that agree with it
\* before position i, it has the greatest character at position i.
RECURSIVE GreatestFrom(_, _)
GreatestFrom(ids, i) ==
    LET any == CHOOSE id \in ids : TRUE
    IN  IF i > Len(any) THEN any
        ELSE LET chars == {id[i] : id \in ids}
                 top == CHOOSE c \in chars :
                            \A other \in chars : ~StringLess(<<c>>, <<other>>)
             IN  GreatestFrom({id \in ids : id[i] = top}, i + 1)

\* a query that sorts ascending: the least matching safeId
findLastSafe_Ascending(digits) ==
    LET matching == {d.id : d \in {e \in Stored("safe") : MatchesSW(e.id, digits)}}
    IN  IF matching = {} THEN NullId
        ELSE CHOOSE id \in matching : \A other \in matching : ~StringLess(other, id)

\* findOne({safeId: {$regex: /^SW\d{digits}$/}}, {safeId: 1}, {sort: {safeId: -1}}):
\* the greatest matching safeId, NullId when no document matches
findLastSafe(digits) ==
    LET matching == {d.id : d \in {e \in Stored("safe") : MatchesSW(e.id, digits)}}
    IN  IF matching = {} THEN NullId ELSE GreatestFrom(matching, 1)

\* an allocator that restarts the 8-digit tier at 1 on every allocation
nextSafeId_RestartsAtOne(lastSafe6Digit, lastSafe8Digit) ==
    LET has6 == lastSafe6Digit # NullId
        has8 == lastSafe8Digit # NullId
        lastNumber == parseInt(substring(lastSafe6Digit, 2))
        last8DigitNumber == parseInt(substring(lastSafe8Digit, 2))
        use8DigitFormat == (has6 /\ lastNumber >= 9999) \/ (~has6 /\ has8)
        nextNumber ==
            IF has6
            THEN IF lastNumber >= 9999 THEN 1 ELSE lastNumber + 1
            ELSE IF has8 THEN last8DigitNumber + 1 ELSE 1
    IN  IF use8DigitFormat
        THEN <<"S", "W">> \o padStart(StringOf(nextNumber), 8, "0")
        ELSE <<"S", "W">> \o padStart(StringOf(nextNumber), 4, "0")

\* an allocator that leaves the 4-digit tier one number late
nextSafeId_LateRollover(lastSafe6Digit, lastSafe8Digit) ==
    LET has6 == lastSafe6Digit # NullId
        has8 == lastSafe8Digit # NullId
        lastNumber == parseInt(substring(lastSafe6Digit, 2))
        last8DigitNumber == parseInt(substring(lastSafe8Digit, 2))
        use8DigitFormat == (has6 /\ lastNumber > 9999) \/ (~has6 /\ has8)
        nextNumber ==
            IF has6
            THEN IF lastNumber > 9999
                 THEN IF has8 THEN last8DigitNumber + 1 ELSE 1
                 ELSE lastNumber + 1
            ELSE IF has8 THEN last8DigitNumber + 1 ELSE 1
    IN  IF use8DigitFormat
        THEN <<"S", "W">> \o padStart(StringOf(nextNumber), 8, "0")
        ELSE <<"S", "W">> \o padStart(StringOf(nextNumber), 4, "0")

\* the identifier the allocator computes from the two documents it found
nextSafeId(lastSafe6Digit, lastSafe8Digit) ==
    LET has6 == lastSafe6Digit # NullId
        has8 == lastSafe8Digit # NullId
        lastNumber == parseInt(substring(lastSafe6Digit, 2))
        last8DigitNumber == parseInt(substring(lastSafe8Digit, 2))
        use8DigitFormat == (has6 /\ lastNumber >= 9999) \/ (~has6 /\ has8)
        nextNumber ==
            IF has6
            THEN IF lastNumber >= 9999
                 THEN IF has8 THEN last8DigitNumber + 1 ELSE 1
                 ELSE lastNumber + 1
            ELSE IF has8 THEN last8DigitNumber + 1 ELSE 1
    IN  IF use8DigitFormat
        THEN <<"S", "W">> \o padStart(StringOf(nextNumber), 8, "0")
        ELSE <<"S", "W">> \o padStart(StringOf(nextNumber), 4, "0")

-----------------------------------------------------------------------------
(* save() of a new document: the pre-save hook, then the insert. *)

\* a handler with no save() in flight
Idle ==
    [pc |-> "idle", collection |-> "none", doc |-> Document(NullId, "u1", "none"),
     allocated |-> FALSE, lastSafe6Digit |-> NullId, thrown |-> NoError,
     attempts |-> 0]

\* a handler may construct a new document
MayCreate(h) ==
    /\ saves[h].pc \in {"idle", "saved", "failed"}
    /\ LET stored == Len(store["safe"]) + Len(store["transactions"])
                     + Len(store["payments"]) + Len(store["walletTopUpRequests"])
                     + Len(store["wallets"])
           inFlight == Cardinality({g \in Handlers : saves[g].pc \in {"find8", "insert"}})
       IN  stored + inFlight < MaxDocs

\* identifiers a creator supplies for a new safe deposit (NullId: none)
SuppliedSafeIds == {NullId, <<"S", "W", "9", "9", "9", "8">>}

\* identifiers a creator supplies for a new wallet (NullId: none)
SuppliedWalletIds ==
    {NullId} \cup {<<"W">> \o yymm(Today) \o token : token \in Tokens}

\* safeSchema.pre('save') up to its first query: a new document without a
\* safeId asks for the last 4-digit safeId; any other goes on to the insert.
SaveNewSafe(h) ==
    /\ MayCreate(h)
    /\ \E supplied \in SuppliedSafeIds :
        saves' = [saves EXCEPT ![h] =
            IF supplied = NullId
            THEN [pc |-> "find8", collection |-> "safe",
                  doc |-> Document(NullId, "u1", "none"), allocated |-> TRUE,
                  lastSafe6Digit |-> findLastSafe(4), thrown |-> NoError,
                  attempts |-> 0]
            ELSE [pc |-> "insert", collection |-> "safe",
                  doc |-> Document(supplied, "u1", "none"), allocated |-> FALSE,
                  lastSafe6Digit |-> NullId, thrown |-> NoError,
                  attempts |-> 0]]
    /\ UNCHANGED <<wallet, request, payment, transaction, now, call, store, safe, copies, ledger, stats>>

\* safeSchema.pre('save') from its second query on: the last 8-digit safeId
\* is read and the next safeId computed.
PreSaveSafe(h) ==
    /\ saves[h].pc = "find8"
    /\ saves' = [saves EXCEPT ![h].pc = "insert",
                              ![h].doc.id = nextSafeId(saves[h].lastSafe6Digit,
                                                       findLastSafe(8))]
    /\ UNCHANGED <<wallet, request, payment, transaction, now, call, store, safe, copies, ledger, stats>>

\* the most safe deposits created one at a time after the initial ones
MaxSequential == 3

\* numbers of safe deposits created one at a time before the first state:
\* none, and just before each lengthening of the number and the end of the
\* 4-digit tier
SequentialStarts == {0, 8, 98, 998, 9998}

\* The safe collection after k <= 9999 creations from empty, each run to its
\* insert before the next one starts.
SequentialStore(k) ==
    [i \in 1..k |->
        Document(<<"S", "W">> \o padStart(StringOf(i), 4, "0"), "u1", "none")]

\* safeSchema.pre('save') up to its first query, for a new document without a
\* safeId whose save() starts when no other save() is running.
SaveNewSafeInTurn(h) ==
    /\ \A g \in Handlers : saves[g].pc \in {"idle", "saved", "failed"}
    /\ \E k \in SequentialStarts :
        /\ k <= Len(store["safe"])
        /\ Len(store["safe"]) < k + MaxSequential
    /\ saves' = [saves EXCEPT ![h] =
            [pc |-> "find8", collection |-> "safe",
             doc |-> Document(NullId, "u1", "none"), allocated |-> TRUE,
             lastSafe6Digit |-> findLastSafe(4), thrown |-> NoError,
             attempts |-> 0]]
    /\ UNCHANGED <<wallet, request, payment, transaction, now, call, store, safe, copies, ledger, stats>>

\* the most safe deposits created one at a time from an empty collection
MaxInTurn == 4

\* identifiers a creator supplies for a safe deposit created in turn (NullId:
\* none, so the allocator runs)
InTurnSafeIds ==
    {NullId,
     <<"S", "W", "0", "0", "4", "1">>,
     <<"S", "W", "9", "9", "9", "8">>,
     <<"S", "W", "0", "0", "0", "0", "0", "0", "4", "1">>}

\* safeSchema.pre('save') up to its first query, for a save() that starts when
\* no other save() is running: a new document without a safeId asks for the
\* last 4-digit safeId, one with a safeId goes on to the insert.
SaveNewSafeAlone(h) ==
    /\ \A g \in Handlers : saves[g].pc \in {"idle", "saved", "failed"}
    /\ Len(store["safe"]) < MaxInTurn
    /\ \E supplied \in InTurnSafeIds :
        saves' = [saves EXCEPT ![h] =
            IF supplied = NullId
            THEN [pc |-> "find8", collection |-> "safe",
                  doc |-> Document(NullId, "u1", "none"), allocated |-> TRUE,
                  lastSafe6Digit |-> findLastSafe(4), thrown |-> NoError,
                  attempts |-> 0]
            ELSE [pc |-> "insert", collection |-> "safe",
                  doc |-> Document(supplied, "u1", "none"), allocated |-> FALSE,
                  lastSafe6Digit |-> NullId, thrown |-> NoError,
                  attempts |-> 0]]
    /\ UNCHANGED <<wallet, request, payment, transaction, now, call, store, safe, copies, ledger, stats>>

\* the most safe deposits created by concurrent handlers from an empty
\* collection
MaxTier == 4

\* identifiers a creator supplies for a safe deposit created next to others
\* (NullId: none, so the allocator runs): in and at the end of each tier
TierSafeIds ==
    {NullId,
     <<"S", "W", "0", "0", "4", "1">>,
     <<"S", "W", "9", "9", "9", "9">>,
     <<"S", "W", "0", "0", "0", "0", "0", "0", "4", "1">>,
     <<"S", "W", "9", "9", "9", "9", "9", "9", "9", "9">>}

\* safeSchema.pre('save') up to its first query, whatever the other handlers
\* are doing: a new document without a safeId asks for the last 4-digit
\* safeId, one with a safeId goes on to the insert.
SaveNewSafeAny(h) ==
    /\ saves[h].pc \in {"idle", "saved", "failed"}
    /\ Len(store["safe"])
         + Cardinality({g \in Handlers : saves[g].pc \in {"find8", "insert"}})
            < MaxTier
    /\ \E supplied \in TierSafeIds :
        saves' = [saves EXCEPT ![h] =
            IF supplied = NullId
            THEN [pc |-> "find8", collection |-> "safe",
                  doc |-> Document(NullId, "u1", "none"), allocated |-> TRUE,
                  lastSafe6Digit |-> findLastSafe(4), thrown |-> NoError,
                  attempts |-> 0]
            ELSE [pc |-> "insert", collection |-> "safe",
                  doc |-> Document(supplied, "u1", "none"), allocated |-> FALSE,
                  lastSafe6Digit |-> NullId, thrown |-> NoError,
                  attempts |-> 0]]
    /\ UNCHANGED <<wallet, request, payment, transaction, now, call, store, safe, copies, ledger, stats>>

\* the transactionId the pre-save hook gives a new document without one
transactionPreSave(id, type, token) ==
    IF id = NullId
    THEN <<"T", "X", "N">> \o yymmdd(Today)
            \o <<IF type = "CREDIT" THEN "C" ELSE "D">> \o token
    ELSE id

\* the paymentId the pre-save hook gives a new document without one
paymentPreSave(id, token) ==
    IF id = NullId THEN <<"P", "A", "Y">> \o yymmdd(Today) \o token ELSE id

\* the requestId the pre-save hook gives a new document without one
topUpPreSave(id, token) ==
    IF id = NullId
    THEN <<"T", "O", "P", "U", "P">> \o yymmdd(Today) \o token
    ELSE id

\* the walletId the pre-save hook gives a new document without one
walletPreSave(id, token) ==
    IF id = NullId THEN <<"W">> \o yymm(Today) \o token ELSE id

Pending(collection, doc) ==
    [pc |-> "insert", collection |-> collection, doc |-> doc,
     allocated |-> TRUE, lastSafe6Digit |-> NullId, thrown |-> NoError,
     attempts |-> 0]

SaveNewTransaction(h) ==
    /\ MayCreate(h)
    /\ \E type \in TransactionTypes, token \in Tokens :
        saves' = [saves EXCEPT ![h] =
            Pending("transactions",
                    Document(transactionPreSave(NullId, type, token), "u1", type))]
    /\ UNCHANGED <<wallet, request, payment, transaction, now, call, store, safe, copies, ledger, stats>>

SaveNewPayment(h) ==
    /\ MayCreate(h)
    /\ \E token \in Tokens :
        saves' = [saves EXCEPT ![h] =
            Pending("payments", Document(paymentPreSave(NullId, token), "u1", "none"))]
    /\ UNCHANGED <<wallet, request, payment, transaction, now, call, store, safe, copies, ledger, stats>>

SaveNewTopUpRequest(h) ==
    /\ MayCreate(h)
    /\ \E token \in Tokens :
        saves' = [saves EXCEPT ![h] =
            Pending("walletTopUpRequests",
                    Document(topUpPreSave(NullId, token), "u1", "none"))]
    /\ UNCHANGED <<wallet, request, payment, transaction, now, call, store, safe, copies, ledger, stats>>

\* A new wallet: walletId is a required path, and validation runs before the
\* pre-save hook, so a wallet without a walletId is refused there.
SaveNewWallet(h) ==
    /\ MayCreate(h)
    /\ \E supplied \in SuppliedWalletIds, user \in Users, token \in Tokens :
        saves' = [saves EXCEPT ![h] =
            IF supplied = NullId
            THEN [Idle EXCEPT !.pc = "failed", !.collection = "wallets",
                              !.doc = Document(NullId, user, "none"),
                              !.thrown = "Path walletId is required"]
            ELSE [Pending("wallets",
                          Document(walletPreSave(supplied, token), user, "none"))
                    EXCEPT !.allocated = FALSE]]
    /\ UNCHANGED <<wallet, request, payment, transaction, now, call, store, safe, copies, ledger, stats>>

\* the most documents stored by the saves that carry a creator's or a hook's
\* identifier
MaxIdentified == 2

\* identifiers a creator supplies for a new document of any collection
\* (NullId: none)
CreatorIds ==
    {NullId, <<"S", "W", "0", "0", "4", "1">>, <<"I", "D", "1">>}

\* a hook that assigns an identifier on every save
Generates_Always(isNew, id) == TRUE

\* the guard of every pre-save hook: this.isNew && !this.safeId (and
\* transactionId, paymentId, requestId, walletId)
Generates(isNew, id) == isNew /\ id = NullId

\* the identifier the hook of a collection other than safe makes
HookId(collection, type, token) ==
    CASE collection = "transactions" -> transactionPreSave(NullId, type, token)
      [] collection = "payments" -> paymentPreSave(NullId, token)
      [] collection = "walletTopUpRequests" -> topUpPreSave(NullId, token)
      [] collection = "wallets" -> walletPreSave(NullId, token)

\* no save() is running
NoSaveRunning ==
    \A g \in Handlers : saves[g].pc \in {"idle", "saved", "failed", "updated"}

\* save() of a new document of any collection, with or without an identifier
\* from its creator, up to the insert (up to the first query of the allocator
\* for a safe deposit). Validation comes first: a wallet needs a walletId.
\* allocated tells that the creator supplied none.
SaveNewRecord(h) ==
    /\ NoSaveRunning
    /\ Len(store["safe"]) + Len(store["transactions"]) + Len(store["payments"])
         + Len(store["walletTopUpRequests"]) + Len(store["wallets"])
            < MaxIdentified
    /\ \E collection \in Collections, supplied \in CreatorIds, token \in Tokens :
        \E type \in IF collection = "transactions"
                     THEN TransactionTypes ELSE {"none"} :
            saves' = [saves EXCEPT ![h] =
                IF collection = "wallets" /\ supplied = NullId
                THEN [Idle EXCEPT !.pc = "failed", !.collection = "wallets",
                                  !.thrown = "Path walletId is required"]
                ELSE IF ~Generates(TRUE, supplied)
                THEN [Pending(collection, Document(supplied, "u1", type))
                        EXCEPT !.allocated = (supplied = NullId)]
                ELSE IF collection = "safe"
                THEN [pc |-> "find8", collection |-> "safe",
                      doc |-> Document(NullId, "u1", "none"),
                      allocated |-> (supplied = NullId),
                      lastSafe6Digit |-> findLastSafe(4), thrown |-> NoError,
                      attempts |-> 0]
                ELSE [Pending(collection,
                              Document(HookId(collection, type, token), "u1", type))
                        EXCEPT !.allocated = (supplied = NullId)]]
    /\ UNCHANGED <<wallet, request, payment, transaction, now, call, store, safe, copies, ledger, stats>>

\* save() of a stored document whose identifier path the caller has not
\* assigned: isNew is false when the hook runs, and the document is written
\* back.
SaveExisting(h) ==
    /\ NoSaveRunning
    /\ \E collection \in Collections, token \in Tokens :
        \E i \in 1..Len(store[collection]) :
            LET d == store[collection][i]
                resaved ==
                    IF Generates(FALSE, d.id)
                    THEN [d EXCEPT !.id =
                            IF collection = "safe"
                            THEN nextSafeId(findLastSafe(4), findLastSafe(8))
                            ELSE HookId(collection, d.type, token)]
                    ELSE d
            IN  /\ store' = [store EXCEPT ![collection][i] = resaved]
                /\ saves' = [saves EXCEPT ![h] =
                        [pc |-> "updated", collection |-> collection,
                         doc |-> resaved, allocated |-> FALSE,
                         lastSafe6Digit |-> NullId, thrown |-> NoError,
                         attempts |-> 0]]
    /\ UNCHANGED <<wallet, request, payment, transaction, now, call, safe, copies, ledger, stats>>

\* a save() that runs the allocator again after a rejected insert
Insert_Retries(h) ==
    /\ saves[h].pc = "insert"
    /\ IF DuplicateKey(saves[h].collection, saves[h].doc)
       THEN /\ saves' = [saves EXCEPT ![h].pc = "find8",
                                      ![h].lastSafe6Digit = findLastSafe(4),
                                      ![h].attempts = @ + 1]
            /\ store' = store
       ELSE /\ saves' = [saves EXCEPT ![h].pc = "saved",
                                      ![h].attempts = @ + 1]
            /\ store' = [store EXCEPT ![saves[h].collection] =
                            Append(@, saves[h].doc)]
    /\ UNCHANGED <<wallet, request, payment, transaction, now, call, safe, copies, ledger, stats>>

\* The insert of save(): the collection stores the document unless one of its
\* unique indexes rejects it, and the error goes to the caller of save().
\* attempts counts the inserts the save() has made.
Insert(h) ==
    /\ saves[h].pc = "insert"
    /\ IF DuplicateKey(saves[h].collection, saves[h].doc)
       THEN /\ saves' = [saves EXCEPT ![h].pc = "failed",
                                      ![h].thrown = "E11000 duplicate key error",
                                      ![h].attempts = @ + 1]
            /\ store' = store
       ELSE /\ saves' = [saves EXCEPT ![h].pc = "saved",
                                      ![h].attempts = @ + 1]
            /\ store' = [store EXCEPT ![saves[h].collection] =
                            Append(@, saves[h].doc)]
    /\ UNCHANGED <<wallet, request, payment, transaction, now, call, safe, copies, ledger, stats>>

-----------------------------------------------------------------------------
(* Safe-deposit document: src/models/safe.model.ts, the schema. The code
   defines no method on it: a caller constructs the document, assigns its
   paths and calls save(). *)

\* amounts locked into a safe deposit
SafeAmounts == {100, 150}
\* interest an accrual process writes
SafeInterests == {0, 10}

\* no safe deposit constructed yet
NoSafe ==
    [safeId |-> NullId, amount |-> 0, withdrawDate |-> 0, interest |-> 0,
     isWithdrawn |-> FALSE, interestUpdated |-> FALSE]

\* new safeModel({userId, amount, startDate, endDate}) once saved: the schema
\* defaults for the paths the caller leaves out
NewSafe(safeId, amount) ==
    [safeId |-> safeId, amount |-> amount, withdrawDate |-> 0, interest |-> 0,
     isWithdrawn |-> FALSE, interestUpdated |-> FALSE]

\* the handler whose safe deposit the variable safe follows
Depositor == "h1"

\* save() of a new safe deposit without a safeId, up to the answer of the
\* hook's first query: the document is constructed with the schema defaults
\* and the hook holds the last 4-digit safeId. Other save() calls run while
\* the hook waits.
SaveNewSafeDeposit ==
    /\ safe = NoSafe
    /\ MayCreate(Depositor)
    /\ \E amount \in SafeAmounts :
        /\ safe' = NewSafe(NullId, amount)
        /\ saves' = [saves EXCEPT ![Depositor] =
                [pc |-> "find8", collection |-> "safe",
                 doc |-> Document(NullId, "u1", "none"), allocated |-> TRUE,
                 lastSafe6Digit |-> findLastSafe(4), thrown |-> NoError,
                 attempts |-> 0]]
    /\ UNCHANGED <<wallet, request, payment, transaction, now, call, store, copies, ledger, stats>>

\* the hook from the answer of its second query to next(): the safeId is
\* computed from the two answers and assigned to the document
PreSaveSafeDeposit ==
    /\ safe # NoSafe
    /\ saves[Depositor].pc = "find8"
    /\ LET safeId == nextSafeId(saves[Depositor].lastSafe6Digit, findLastSafe(8))
       IN  /\ safe' = [safe EXCEPT !.safeId = safeId]
           /\ saves' = [saves EXCEPT ![Depositor].pc = "insert",
                                     ![Depositor].doc.id = safeId]
    /\ UNCHANGED <<wallet, request, payment, transaction, now, call, store, copies, ledger, stats>>

\* the insert of the new safe deposit: stored, or refused by the unique index
\* on safeId when another save() has stored the same safeId meanwhile.
\* Nothing else is written.
InsertSafeDeposit ==
    /\ safe # NoSafe
    /\ saves[Depositor].pc = "insert"
    /\ IF DuplicateKey("safe", saves[Depositor].doc)
       THEN /\ saves' = [saves EXCEPT ![Depositor].pc = "failed",
                                      ![Depositor].thrown = "E11000 duplicate key error",
                                      ![Depositor].attempts = @ + 1]
            /\ call' = [method |-> "save", arg |-> safe.amount,
                        thrown |-> "E11000 duplicate key error"]
            /\ store' = store
       ELSE /\ saves' = [saves EXCEPT ![Depositor].pc = "saved",
                                      ![Depositor].attempts = @ + 1]
            /\ call' = [method |-> "save", arg |-> safe.amount, thrown |-> NoError]
            /\ store' = [store EXCEPT !["safe"] = Append(@, saves[Depositor].doc)]
    /\ UNCHANGED <<wallet, request, payment, transaction, now, safe, copies, ledger, stats>>

\* Assignment of isWithdrawn, withdrawDate, interest and interestUpdated on
\* the stored safe deposit, then save(): the schema takes any Boolean and any
\* Number for each path on its own, and the pre-save hook does nothing to a
\* document that is not new.
SaveSafe ==
    /\ safe # NoSafe
    /\ saves[Depositor].pc = "saved"
    /\ \E isWithdrawn \in BOOLEAN, withdrawDate \in {0, now},
          interest \in SafeInterests, interestUpdated \in BOOLEAN :
        /\ safe' = [safe EXCEPT !.isWithdrawn = isWithdrawn,
                                !.withdrawDate = withdrawDate,
                                !.interest = interest,
                                !.interestUpdated = interestUpdated]
        /\ call' = [method |-> "save", arg |-> withdrawDate, thrown |-> NoError]
    /\ UNCHANGED <<wallet, request, payment, transaction, now, store, saves, copies, ledger, stats>>

-----------------------------------------------------------------------------
(* Request handlers that each load the wallet, call one balance mutator on
   their own copy and save it: src/models/wallet.model.ts *)

\* a handler that has loaded nothing
NotLoaded ==
    [pc |-> "idle", loaded |-> NewWallet, doc |-> NewWallet,
     method |-> "none", amount |-> 0, thrown |-> NoError]

\* the stored wallet the handlers contend for: primary balance 100 (scenario A)
ContendedWallet == [NewWallet EXCEPT !.primaryWalletBalance = 100]

\* findByWalletId: the handler gets its own copy of the stored document
LoadWallet(h) ==
    /\ copies[h].pc = "idle"
    /\ copies' = [copies EXCEPT ![h] =
            [pc |-> "loaded", loaded |-> wallet, doc |-> wallet,
             method |-> "none", amount |-> 0, thrown |-> NoError]]
    /\ UNCHANGED <<wallet, request, payment, transaction, now, call, store, saves, safe, ledger, stats>>

\* addToPrimaryBalance on the handler's copy
CopyAddToPrimaryBalance(h) ==
    /\ copies[h].pc = "loaded"
    /\ \E amount \in Amounts :
        LET outcome == addToPrimaryBalance(copies[h].doc, amount) IN
        /\ WithinBalanceBound(outcome.doc)
        /\ copies' = [copies EXCEPT ![h] =
                [pc |-> IF outcome.thrown = NoError THEN "mutated" ELSE "failed",
                 loaded |-> copies[h].loaded, doc |-> outcome.doc,
                 method |-> "addToPrimaryBalance", amount |-> amount,
                 thrown |-> outcome.thrown]]
    /\ UNCHANGED <<wallet, request, payment, transaction, now, call, store, saves, safe, ledger, stats>>

\* subtractFromPrimaryBalance on the handler's copy
CopySubtractFromPrimaryBalance(h) ==
    /\ copies[h].pc = "loaded"
    /\ \E amount \in Amounts :
        LET outcome == subtractFromPrimaryBalance(copies[h].doc, amount) IN
        /\ copies' = [copies EXCEPT ![h] =
                [pc |-> IF outcome.thrown = NoError THEN "mutated" ELSE "failed",
                 loaded |-> copies[h].loaded, doc |-> outcome.doc,
                 method |-> "subtractFromPrimaryBalance", amount |-> amount,
                 thrown |-> outcome.thrown]]
    /\ UNCHANGED <<wallet, request, payment, transaction, now, call, store, saves, safe, ledger, stats>>

\* save() of the handler's copy: an update that sets the paths the handler
\* modified to the copy's values, whatever the stored document holds by then
\* (the schema sets no optimisticConcurrency and no code opens a session).
SaveWallet(h) ==
    /\ copies[h].pc = "mutated"
    /\ wallet' =
          [wallet EXCEPT
             !.primaryWalletBalance =
                 IF copies[h].doc.primaryWalletBalance
                        # copies[h].loaded.primaryWalletBalance
                 THEN copies[h].doc.primaryWalletBalance ELSE @,
             !.safeWalletBalance =
                 IF copies[h].doc.safeWalletBalance
                        # copies[h].loaded.safeWalletBalance
                 THEN copies[h].doc.safeWalletBalance ELSE @]
    /\ copies' = [copies EXCEPT ![h].pc = "saved"]
    /\ UNCHANGED <<request, payment, transaction, now, call, store, saves, safe, ledger, stats>>

-----------------------------------------------------------------------------
(* The transactions collection with the fields of its entries, and its
   statistics: src/models/transactions.model.ts *)

\* most ledger entries the model creates
MaxLedger == 2

\* amounts of ledger entries (scenario A's 100 and 150)
LedgerAmounts == {100, 150}

\* the status a creator hands to new transactionModel({...}): none at all
\* (NullString), or one of the enum other than the default
SuppliedStatuses == {NullString, "COMPLETED", "FAILED"}

\* getUserStats not returned yet
NoStats ==
    [userId |-> "none", totalCredit |-> 0, totalDebit |-> 0,
     totalTransactions |-> 0, creditCount |-> 0, debitCount |-> 0]

\* new transactionModel({userId, type, amount, status, ...}) once saved: the
\* schema default fills in a status the creator left out, the pre-save hook a
\* transactionId
NewLedgerEntry(userId, type, amount, status, token) ==
    [transactionId |-> transactionPreSave(NullId, type, token),
     userId |-> userId, type |-> type, amount |-> amount,
     status |-> IF status = NullString THEN "PENDING" ELSE status]

\* $sum over the documents of a $group: f maps document positions to numbers
RECURSIVE SumOver(_, _)
SumOver(f, positions) ==
    IF positions = {} THEN 0
    ELSE LET i == CHOOSE j \in positions : TRUE
         IN  f[i] + SumOver(f, positions \ {i})

\* getUserStats counting every entry of the user, whatever its status
getUserStats_AnyStatus(entries, userId) ==
    LET matched == {i \in 1..Len(entries) : entries[i].userId = userId}
    IN  IF matched = {}
        THEN [totalCredit |-> 0, totalDebit |-> 0, totalTransactions |-> 0,
              creditCount |-> 0, debitCount |-> 0]
        ELSE [totalCredit |->
                SumOver([i \in matched |->
                    IF entries[i].type = "CREDIT" THEN entries[i].amount ELSE 0],
                    matched),
              totalDebit |->
                SumOver([i \in matched |->
                    IF entries[i].type = "DEBIT" THEN entries[i].amount ELSE 0],
                    matched),
              totalTransactions |-> SumOver([i \in matched |-> 1], matched),
              creditCount |->
                SumOver([i \in matched |->
                    IF entries[i].type = "CREDIT" THEN 1 ELSE 0], matched),
              debitCount |->
                SumOver([i \in matched |->
                    IF entries[i].type = "DEBIT" THEN 1 ELSE 0], matched)]

\* aggregate([{$match: {userId, status: 'COMPLETED'}}, {$group: ...}]) and
\* stats[0] or the all-zero default
getUserStats(entries, userId) ==
    LET matched == {i \in 1..Len(entries) :
                        /\ entries[i].userId = userId
                        /\ entries[i].status = "COMPLETED"}
    IN  IF matched = {}
        THEN [totalCredit |-> 0, totalDebit |-> 0, totalTransactions |-> 0,
              creditCount |-> 0, debitCount |-> 0]
        ELSE [totalCredit |->
                SumOver([i \in matched |->
                    IF entries[i].type = "CREDIT" THEN entries[i].amount ELSE 0],
                    matched),
              totalDebit |->
                SumOver([i \in matched |->
                    IF entries[i].type = "DEBIT" THEN entries[i].amount ELSE 0],
                    matched),
              totalTransactions |-> SumOver([i \in matched |-> 1], matched),
              creditCount |->
                SumOver([i \in matched |->
                    IF entries[i].type = "CREDIT" THEN 1 ELSE 0], matched),
              debitCount |->
                SumOver([i \in matched |->
                    IF entries[i].type = "DEBIT" THEN 1 ELSE 0], matched)]

\* save() of a new transaction, run with no other save(): defaults, pre-save
\* hook, insert under the unique index on transactionId.
CreateTransaction ==
    /\ Len(ledger) < MaxLedger
    /\ \E userId \in Users, type \in TransactionTypes, amount \in LedgerAmounts,
          status \in SuppliedStatuses, token \in Tokens :
        LET entry == NewLedgerEntry(userId, type, amount, status, token)
        IN  IF \E i \in 1..Len(ledger) :
                    ledger[i].transactionId = entry.transactionId
            THEN /\ call' = [method |-> "save", arg |-> amount,
                             thrown |-> "E11000 duplicate key error"]
                 /\ ledger' = ledger
            ELSE /\ call' = [method |-> "save", arg |-> amount, thrown |-> NoError]
                 /\ ledger' = Append(ledger, entry)
    /\ UNCHANGED <<wallet, request, payment, transaction, now, store, saves,
                   safe, copies, stats>>

\* transactionModel.getUserStats(userId)
GetUserStats ==
    /\ \E userId \in Users :
        LET result == getUserStats(ledger, userId)
        IN  stats' = [userId |-> userId,
                      totalCredit |-> result.totalCredit,
                      totalDebit |-> result.totalDebit,
                      totalTransactions |-> result.totalTransactions,
                      creditCount |-> result.creditCount,
                      debitCount |-> result.debitCount]
    /\ UNCHANGED <<wallet, request, payment, transaction, now, call, store, saves,
                   safe, copies, ledger>>

-----------------------------------------------------------------------------
(* Initial states and specifications, one per component. *)

NoCall == [method |-> "none", arg |-> 0, thrown |-> NoError]

\* the documents a component's specification does not act on
DefaultRequest == NewRequest(500, "PRIMARY")
DefaultPayment == NewPayment("CC_PAYMENT", 1000, 20)
DefaultTransaction == NewTransaction("CREDIT", 100, "WALLET_TOP_UP", "PRIMARY")

InitWallet ==
    /\ wallet = NewWallet
    /\ request = DefaultRequest
    /\ payment = DefaultPayment
    /\ transaction = DefaultTransaction
    /\ now = 1
    /\ call = NoCall
    /\ store = [c \in Collections |-> <<>>]
    /\ saves = [h \in Handlers |-> Idle]
    /\ safe = NoSafe
    /\ copies = [h \in Handlers |-> NotLoaded]
    /\ ledger = <<>>
    /\ stats = NoStats

NextWallet ==
    \/ InvokeAddToPrimaryBalance
    \/ InvokeSubtractFromPrimaryBalance
    \/ InvokeAddToSafeBalance
    \/ InvokeSubtractFromSafeBalance
    \/ InvokeBlock
    \/ InvokeFreeze
    \/ InvokeActivate

SpecWallet == InitWallet /\ [][NextWallet]_vars

\* A pending top-up request against a fresh wallet.
InitTopUp ==
    /\ wallet = NewWallet
    /\ \E amount \in TopUpAmounts, target \in SubAccounts :
           request = NewRequest(amount, target)
    /\ payment = DefaultPayment
    /\ transaction = DefaultTransaction
    /\ now = 1
    /\ call = NoCall
    /\ store = [c \in Collections |-> <<>>]
    /\ saves = [h \in Handlers |-> Idle]
    /\ safe = NoSafe
    /\ copies = [h \in Handlers |-> NotLoaded]
    /\ ledger = <<>>
    /\ stats = NoStats

NextTopUp ==
    \/ InvokeApprove
    \/ InvokeReject
    \/ Tick

SpecTopUp == InitTopUp /\ [][NextTopUp]_vars

\* A pending payment.
InitPayment ==
    /\ wallet = NewWallet
    /\ request = DefaultRequest
    /\ \E type \in PaymentTypes, amount \in PaymentAmounts, fee \in PaymentFees :
           payment = NewPayment(type, amount, fee)
    /\ transaction = DefaultTransaction
    /\ now = 1
    /\ call = NoCall
    /\ store = [c \in Collections |-> <<>>]
    /\ saves = [h \in Handlers |-> Idle]
    /\ safe = NoSafe
    /\ copies = [h \in Handlers |-> NotLoaded]
    /\ ledger = <<>>
    /\ stats = NoStats

NextPayment ==
    \/ InvokeComplete
    \/ InvokeFail
    \/ Tick

SpecPayment == InitPayment /\ [][NextPayment]_vars

\* A pending transaction.
InitTransaction ==
    /\ wallet = NewWallet
    /\ request = DefaultRequest
    /\ payment = DefaultPayment
    /\ \E type \in TransactionTypes, category \in TransactionCategories,
          target \in SubAccounts :
           transaction = NewTransaction(type, 100, category, target)
    /\ now = 1
    /\ call = NoCall
    /\ store = [c \in Collections |-> <<>>]
    /\ saves = [h \in Handlers |-> Idle]
    /\ safe = NoSafe
    /\ copies = [h \in Handlers |-> NotLoaded]
    /\ ledger = <<>>
    /\ stats = NoStats

NextTransaction ==
    \/ InvokeMarkAsCompleted
    \/ InvokeMarkAsFailed
    \/ InvokeMarkAsCancelled
    \/ InvokeUpdateStatus

SpecTransaction == InitTransaction /\ [][NextTransaction]_vars

\* wallets that hold funds while status operations run
FundedWallets ==
    {ContendedWallet,
     [NewWallet EXCEPT !.primaryWalletBalance = 100, !.safeWalletBalance = 50]}

\* A pending transaction and a pending top-up request next to a wallet that
\* holds funds.
InitStatus ==
    /\ wallet \in FundedWallets
    /\ \E amount \in TopUpAmounts, target \in SubAccounts :
           request = NewRequest(amount, target)
    /\ payment = DefaultPayment
    /\ \E type \in TransactionTypes, target \in SubAccounts :
           transaction = NewTransaction(type, 100, "WALLET_TOP_UP", target)
    /\ now = 1
    /\ call = NoCall
    /\ store = [c \in Collections |-> <<>>]
    /\ saves = [h \in Handlers |-> Idle]
    /\ safe = NoSafe
    /\ copies = [h \in Handlers |-> NotLoaded]
    /\ ledger = <<>>
    /\ stats = NoStats

NextStatus ==
    \/ InvokeMarkAsCompleted
    \/ InvokeMarkAsFailed
    \/ InvokeMarkAsCancelled
    \/ InvokeUpdateStatus
    \/ InvokeReject

SpecStatus == InitStatus /\ [][NextStatus]_vars

\* Empty collections and idle handlers.
InitStore ==
    /\ wallet = NewWallet
    /\ request = DefaultRequest
    /\ payment = DefaultPayment
    /\ transaction = DefaultTransaction
    /\ now = 1
    /\ call = NoCall
    /\ store = [c \in Collections |-> <<>>]
    /\ saves = [h \in Handlers |-> Idle]
    /\ safe = NoSafe
    /\ copies = [h \in Handlers |-> NotLoaded]
    /\ ledger = <<>>
    /\ stats = NoStats

NextStore ==
    \E h \in Handlers :
        \/ SaveNewSafe(h)
        \/ PreSaveSafe(h)
        \/ SaveNewTransaction(h)
        \/ SaveNewPayment(h)
        \/ SaveNewTopUpRequest(h)
        \/ SaveNewWallet(h)
        \/ Insert(h)

SpecStore == InitStore /\ [][NextStore]_vars

\* Safe deposits created one at a time: the collection holds what the earlier
\* creations stored, and no save() is running.
InitSequential ==
    /\ wallet = NewWallet
    /\ request = DefaultRequest
    /\ payment = DefaultPayment
    /\ transaction = DefaultTransaction
    /\ now = 1
    /\ call = NoCall
    /\ \E k \in SequentialStarts :
        store = [c \in Collections |->
                    IF c = "safe" THEN SequentialStore(k) ELSE <<>>]
    /\ saves = [h \in Handlers |-> Idle]
    /\ safe = NoSafe
    /\ copies = [h \in Handlers |-> NotLoaded]
    /\ ledger = <<>>
    /\ stats = NoStats

NextSequential ==
    \E h \in Handlers :
        \/ SaveNewSafeInTurn(h)
        \/ PreSaveSafe(h)
        \/ Insert(h)

SpecSequential == InitSequential /\ [][NextSequential]_vars

\* Mutations that can fail: credits and debits of the primary balance, debits
\* of the (empty) safe balance, and the creation of safe deposits by
\* concurrent handlers.
InitFailure ==
    /\ wallet = NewWallet
    /\ request = DefaultRequest
    /\ payment = DefaultPayment
    /\ transaction = DefaultTransaction
    /\ now = 1
    /\ call = NoCall
    /\ store = [c \in Collections |-> <<>>]
    /\ saves = [h \in Handlers |-> Idle]
    /\ safe = NoSafe
    /\ copies = [h \in Handlers |-> NotLoaded]
    /\ ledger = <<>>
    /\ stats = NoStats

NextFailure ==
    \/ InvokeAddToPrimaryBalance
    \/ InvokeSubtractFromPrimaryBalance
    \/ InvokeSubtractFromSafeBalance
    \/ \E h \in Handlers :
        \/ SaveNewSafe(h)
        \/ PreSaveSafe(h)
        \/ Insert(h)

SpecFailure == InitFailure /\ [][NextFailure]_vars

\* An empty transactions collection.
InitLedger ==
    /\ wallet = NewWallet
    /\ request = DefaultRequest
    /\ payment = DefaultPayment
    /\ transaction = DefaultTransaction
    /\ now = 1
    /\ call = NoCall
    /\ store = [c \in Collections |-> <<>>]
    /\ saves = [h \in Handlers |-> Idle]
    /\ safe = NoSafe
    /\ copies = [h \in Handlers |-> NotLoaded]
    /\ ledger = <<>>
    /\ stats = NoStats

NextLedger ==
    \/ CreateTransaction
    \/ GetUserStats

SpecLedger == InitLedger /\ [][NextLedger]_vars

\* Safe deposits created one at a time from an empty collection, with or
\* without a safeId from their creator.
InitAllocator ==
    /\ wallet = NewWallet
    /\ request = DefaultRequest
    /\ payment = DefaultPayment
    /\ transaction = DefaultTransaction
    /\ now = 1
    /\ call = NoCall
    /\ store = [c \in Collections |-> <<>>]
    /\ saves = [h \in Handlers |-> Idle]
    /\ safe = NoSafe
    /\ copies = [h \in Handlers |-> NotLoaded]
    /\ ledger = <<>>
    /\ stats = NoStats

NextAllocator ==
    \E h \in Handlers :
        \/ SaveNewSafeAlone(h)
        \/ PreSaveSafe(h)
        \/ Insert(h)

SpecAllocator == InitAllocator /\ [][NextAllocator]_vars

\* Safe deposits created by concurrent handlers from an empty collection, with
\* or without a safeId from their creator.
InitTier ==
    /\ wallet = NewWallet
    /\ request = DefaultRequest
    /\ payment = DefaultPayment
    /\ transaction = DefaultTransaction
    /\ now = 1
    /\ call = NoCall
    /\ store = [c \in Collections |-> <<>>]
    /\ saves = [h \in Handlers |-> Idle]
    /\ safe = NoSafe
    /\ copies = [h \in Handlers |-> NotLoaded]
    /\ ledger = <<>>
    /\ stats = NoStats

NextTier ==
    \E h \in Handlers :
        \/ SaveNewSafeAny(h)
        \/ PreSaveSafe(h)
        \/ Insert(h)

SpecTier == InitTier /\ [][NextTier]_vars

\* Documents of every collection saved one at a time, new ones with or
\* without an identifier from their creator, stored ones saved again.
InitIdentifier ==
    /\ wallet = NewWallet
    /\ request = DefaultRequest
    /\ payment = DefaultPayment
    /\ transaction = DefaultTransaction
    /\ now = 1
    /\ call = NoCall
    /\ store = [c \in Collections |-> <<>>]
    /\ saves = [h \in Handlers |-> Idle]
    /\ safe = NoSafe
    /\ copies = [h \in Handlers |-> NotLoaded]
    /\ ledger = <<>>
    /\ stats = NoStats

NextIdentifier ==
    \E h \in Handlers :
        \/ SaveNewRecord(h)
        \/ PreSaveSafe(h)
        \/ Insert(h)
        \/ SaveExisting(h)

SpecIdentifier == InitIdentifier /\ [][NextIdentifier]_vars

\* A wallet and no safe deposit yet; the other handlers create safe deposits
\* of their own while the depositor's save() runs.
InitSafe ==
    /\ wallet \in {NewWallet, ContendedWallet}
    /\ request = DefaultRequest
    /\ payment = DefaultPayment
    /\ transaction = DefaultTransaction
    /\ now = 1
    /\ call = NoCall
    /\ store = [c \in Collections |-> <<>>]
    /\ saves = [h \in Handlers |-> Idle]
    /\ safe = NoSafe
    /\ copies = [h \in Handlers |-> NotLoaded]
    /\ ledger = <<>>
    /\ stats = NoStats

NextSafe ==
    \/ SaveNewSafeDeposit
    \/ PreSaveSafeDeposit
    \/ InsertSafeDeposit
    \/ SaveSafe
    \/ Tick
    \/ \E h \in Handlers \ {Depositor} :
        \/ SaveNewSafe(h)
        \/ PreSaveSafe(h)
        \/ Insert(h)

SpecSafe == InitSafe /\ [][NextSafe]_vars

\* The stored wallet and two handlers that have loaded nothing.
InitConcurrent ==
    /\ wallet = ContendedWallet
    /\ request = DefaultRequest
    /\ payment = DefaultPayment
    /\ transaction = DefaultTransaction
    /\ now = 1
    /\ call = NoCall
    /\ store = [c \in Collections |-> <<>>]
    /\ saves = [h \in Handlers |-> Idle]
    /\ safe = NoSafe
    /\ copies = [h \in Handlers |-> NotLoaded]
    /\ ledger = <<>>
    /\ stats = NoStats

NextConcurrent ==
    \E h \in Handlers :
        \/ LoadWallet(h)
        \/ CopyAddToPrimaryBalance(h)
        \/ CopySubtractFromPrimaryBalance(h)
        \/ SaveWallet(h)

SpecConcurrent == InitConcurrent /\ [][NextConcurrent]_vars

-----------------------------------------------------------------------------
(* Properties of the wallet account, checked under SpecWallet. *)

Balance(w, sub) ==
    IF sub = "PRIMARY" THEN w.primaryWalletBalance ELSE w.safeWalletBalance

Credits == {"addToPrimaryBalance", "addToSafeBalance"}
Debits == {"subtractFromPrimaryBalance", "subtractFromSafeBalance"}

\* the sub-account a wallet mutator addresses
Addressed(method) ==
    IF method \in {"addToPrimaryBalance", "subtractFromPrimaryBalance"}
    THEN "PRIMARY" ELSE "SAFE"

InvokeDebit == InvokeSubtractFromPrimaryBalance \/ InvokeSubtractFromSafeBalance

InvokeMutator ==
    \/ InvokeAddToPrimaryBalance
    \/ InvokeAddToSafeBalance
    \/ InvokeDebit

\* C1: after any sequence of credits and debits on a wallet that starts with
\* both balances at 0, primaryBalance >= 0 and safeBalance >= 0.
C1_BalancesNonNegative ==
    /\ wallet.primaryWalletBalance >= 0
    /\ wallet.safeWalletBalance >= 0

\* C1's case: a debit larger than the sub-balance was asked for and refused.
C1_Witness ==
    /\ call.method \in Debits
    /\ call.arg > Balance(wallet, Addressed(call.method))
    /\ ErrorKind(call.thrown) = "InsufficientFunds"

\* C2: a debit either succeeds and decreases the addressed sub-balance by
\* exactly the amount, or fails with InsufficientFunds (exactly when the amount
\* is not negative and the sub-balance is less than it) or InvalidAmount and
\* leaves both sub-balances unchanged.
C2_DebitExactOrUnchanged ==
    [][InvokeDebit =>
        LET sub == Addressed(call'.method)
            amount == call'.arg
            kind == ErrorKind(call'.thrown)
        IN  /\ call'.thrown = NoError =>
                Balance(wallet', sub) = Balance(wallet, sub) - amount
            /\ call'.thrown # NoError =>
                /\ kind \in {"InsufficientFunds", "InvalidAmount"}
                /\ wallet'.primaryWalletBalance = wallet.primaryWalletBalance
                /\ wallet'.safeWalletBalance = wallet.safeWalletBalance
            /\ kind = "InsufficientFunds" <=>
                (amount >= 0 /\ Balance(wallet, sub) < amount)
    ]_vars

\* C2's case (scenario A): debit(PRIMARY, 150) was refused for insufficient
\* funds on a primary balance of 100, which is still 100.
C2_Witness ==
    /\ call.method = "subtractFromPrimaryBalance"
    /\ call.arg = 150
    /\ ErrorKind(call.thrown) = "InsufficientFunds"
    /\ wallet.primaryWalletBalance = 100

\* block, freeze or activate
InvokeSetStatus == InvokeBlock \/ InvokeFreeze \/ InvokeActivate

\* C22: block, freeze and activate change only the wallet's status (to
\* BLOCKED, FROZEN and ACTIVE): primaryWalletBalance, safeWalletBalance,
\* walletId and userId keep their values, from any status and any balances,
\* and the call does not throw.
C22_SetStatusChangesOnlyStatus ==
    [][InvokeSetStatus =>
        /\ wallet'.primaryWalletBalance = wallet.primaryWalletBalance
        /\ wallet'.safeWalletBalance = wallet.safeWalletBalance
        /\ wallet'.walletId = wallet.walletId
        /\ wallet'.userId = wallet.userId
        /\ call'.thrown = NoError
        /\ wallet'.status = CASE call'.method = "block" -> "BLOCKED"
                               [] call'.method = "freeze" -> "FROZEN"
                               [] OTHER -> "ACTIVE"
    ]_vars

\* a wallet holding money in both sub-balances has just been blocked
C22_Witness ==
    /\ call.method = "block"
    /\ wallet.status = "BLOCKED"
    /\ wallet.primaryWalletBalance = 100
    /\ wallet.safeWalletBalance = 150

\* C28: a primary-balance mutator leaves safeWalletBalance and status
\* unchanged, a safe-balance mutator leaves primaryWalletBalance and status
\* unchanged, and a mutation that succeeds changes getTotalBalance by exactly
\* +amount (credit) or -amount (debit).
C28_MutatorTouchesOwnSubBalance ==
    [][InvokeMutator =>
        LET sub == Addressed(call'.method)
            other == IF sub = "PRIMARY" THEN "SAFE" ELSE "PRIMARY"
        IN  /\ Balance(wallet', other) = Balance(wallet, other)
            /\ wallet'.status = wallet.status
            /\ call'.thrown = NoError =>
                  getTotalBalance(wallet')
                    = getTotalBalance(wallet)
                        + (IF call'.method \in Credits
                           THEN call'.arg ELSE 0 - call'.arg)
    ]_vars

\* a credit of the safe balance has succeeded on a wallet whose primary
\* balance holds money
C28_Witness ==
    /\ call.method = "addToSafeBalance"
    /\ call.arg = 150
    /\ call.thrown = NoError
    /\ wallet.primaryWalletBalance = 100
    /\ wallet.safeWalletBalance = 150

\* the balance mutator of a given name
Mutator(method, w, amount) ==
    CASE method = "addToPrimaryBalance" -> addToPrimaryBalance(w, amount)
      [] method = "subtractFromPrimaryBalance" -> subtractFromPrimaryBalance(w, amount)
      [] method = "addToSafeBalance" -> addToSafeBalance(w, amount)
      [] method = "subtractFromSafeBalance" -> subtractFromSafeBalance(w, amount)

\* C30: for the balances of any reachable wallet and any amount, each balance
\* mutator throws the same error or returns the same balances whether the
\* wallet is ACTIVE, BLOCKED or FROZEN.
C30_OutcomeIndependentOfStatus ==
    \A method \in Credits \cup Debits, amount \in Amounts :
        \A s, t \in WalletStatuses :
            LET a == Mutator(method, [wallet EXCEPT !.status = s], amount)
                b == Mutator(method, [wallet EXCEPT !.status = t], amount)
            IN  /\ a.thrown = b.thrown
                /\ a.doc.primaryWalletBalance = b.doc.primaryWalletBalance
                /\ a.doc.safeWalletBalance = b.doc.safeWalletBalance
                /\ a.doc.status = s
                /\ b.doc.status = t

\* a FROZEN wallet has just been debited
C30_Witness ==
    /\ wallet.status = "FROZEN"
    /\ call.method = "subtractFromSafeBalance"
    /\ call.arg = 100
    /\ call.thrown = NoError
    /\ wallet.safeWalletBalance = 50

\* C3 as claimed: every credit or debit of an amount <= 0, exactly 0 included,
\* fails with InvalidAmount and changes no balance.
C3_NonPositiveAmountRejected ==
    [][(InvokeMutator /\ call'.arg <= 0) =>
        /\ ErrorKind(call'.thrown) = "InvalidAmount"
        /\ wallet' = wallet
    ]_vars

-----------------------------------------------------------------------------
(* Properties of the top-up request, checked under SpecTopUp. *)

\* C4 as claimed: approve() of a PENDING request sets SUCCESS and approvalTime
\* and increases the target sub-balance by exactly the amount; approve() of a
\* request that is no longer PENDING fails with IllegalStateTransition and
\* leaves the request and the balances unchanged.
C4_ApproveCreditsExactlyOnce ==
    [][InvokeApprove =>
        IF request.status = "PENDING"
        THEN /\ request'.status = "SUCCESS"
             /\ request'.approvalTime # NullDate
             /\ Balance(wallet', request.wallet)
                    = Balance(wallet, request.wallet) + request.amount
        ELSE /\ ErrorKind(call'.thrown) = "IllegalStateTransition"
             /\ wallet' = wallet
             /\ request' = request
    ]_vars

\* C5 as claimed: approve() or reject(reason) of a request that is SUCCESS or
\* REJECTED fails with IllegalStateTransition, and the status, approvalTime,
\* rejectionTime and rejectionReason keep their values.
C5_TopUpTerminalIsFinal ==
    [][((InvokeApprove \/ InvokeReject) /\ request.status \in {"SUCCESS", "REJECTED"}) =>
        /\ ErrorKind(call'.thrown) = "IllegalStateTransition"
        /\ request'.status = request.status
        /\ request'.approvalTime = request.approvalTime
        /\ request'.rejectionTime = request.rejectionTime
        /\ request'.rejectionReason = request.rejectionReason
    ]_vars

-----------------------------------------------------------------------------
(* Properties of the transaction, checked under SpecTransaction. *)

InvokeTransactionStatus ==
    \/ InvokeMarkAsCompleted
    \/ InvokeMarkAsFailed
    \/ InvokeMarkAsCancelled
    \/ InvokeUpdateStatus

\* C6 as claimed: every markAsCompleted, markAsFailed, markAsCancelled or
\* updateStatus(s) on a transaction that is COMPLETED, FAILED or CANCELLED
\* fails with IllegalStateTransition and the status does not change.
C6_TransactionTerminalIsFinal ==
    [][(InvokeTransactionStatus
            /\ transaction.status \in {"COMPLETED", "FAILED", "CANCELLED"}) =>
        /\ ErrorKind(call'.thrown) = "IllegalStateTransition"
        /\ transaction'.status = transaction.status
    ]_vars

-----------------------------------------------------------------------------
(* Properties of the payment, checked under SpecPayment. *)

\* C7 as claimed: complete() or fail(reason) on a payment that is COMPLETED or
\* FAILED is rejected with IllegalStateTransition and the status does not
\* change.
C7_PaymentTerminalIsFinal ==
    [][((InvokeComplete \/ InvokeFail) /\ payment.status \in {"COMPLETED", "FAILED"}) =>
        /\ ErrorKind(call'.thrown) = "IllegalStateTransition"
        /\ payment'.status = payment.status
    ]_vars

\* C8 as claimed: actionTime and actionReason are null while the payment is
\* PENDING, and once the payment has left PENDING no complete() or fail(reason)
\* changes them.
C8_ActionFieldsWrittenOnce ==
    [][/\ payment.status = "PENDING" =>
            /\ payment.actionTime = NullDate
            /\ payment.actionReason = NullString
       /\ payment.status # "PENDING" =>
            /\ payment'.actionTime = payment.actionTime
            /\ payment'.actionReason = payment.actionReason
    ]_vars

-----------------------------------------------------------------------------
(* Properties of identifier allocation and the collections, checked under  *)
(* SpecStore.                                                              *)

\* the safeId after id in the sequence SW0001 .. SW9999, SW00000001 ..
SuccessorSafeId(id) ==
    LET n == parseInt(substring(id, 2))
    IN  IF MatchesSW(id, 4)
        THEN IF n < 9999
             THEN <<"S", "W">> \o padStart(StringOf(n + 1), 4, "0")
             ELSE <<"S", "W">> \o padStart(StringOf(1), 8, "0")
        ELSE <<"S", "W">> \o padStart(StringOf(n + 1), 8, "0")

\* handler h has finished a safe-deposit creation that ran the allocator
FinishedSafeCreation(h) ==
    /\ saves[h].collection = "safe"
    /\ saves[h].allocated
    /\ saves[h].pc \in {"saved", "failed"}

\* C9 as claimed: when every handler has run a safe-deposit creation through
\* the allocator and the insert, and the collection held no safe deposit
\* before these creations, all of them succeeded and their safeIds are
\* distinct and sequential with no gaps, whatever the interleaving was.
C9_ConcurrentSafeIdsSequential ==
    (/\ \A h \in Handlers : FinishedSafeCreation(h)
     /\ Len(store["safe"]) <= Cardinality(Handlers)) =>
        /\ \A h \in Handlers : saves[h].pc = "saved"
        /\ \E order \in [1..Cardinality(Handlers) -> Handlers] :
            /\ \A i, j \in DOMAIN order : i # j => order[i] # order[j]
            /\ \A i \in DOMAIN order : i > 1 =>
                saves[order[i]].doc.id = SuccessorSafeId(saves[order[i - 1]].doc.id)

\* no two documents of a collection carry the same identifier
UniqueIdentifiers ==
    \A c \in Collections : \A i, j \in 1..Len(store[c]) :
        i # j => store[c][i].id # store[c][j].id

\* C10: no two persisted documents of a collection (safe, transactions,
\* payments, walletTopUpRequests, wallets) carry the same identifier, for any
\* interleaving of concurrent creations; an insert whose identifier already
\* exists is rejected with a duplicate-key error and stores nothing.
C10_IdentifiersUnique ==
    /\ UniqueIdentifiers
    /\ [][/\ UniqueIdentifiers'
          /\ \A h \in Handlers :
                (/\ Insert(h)
                 /\ \E d \in Stored(saves[h].collection) : d.id = saves[h].doc.id)
                => /\ store' = store
                   /\ saves'[h].pc = "failed"
                   /\ ErrorKind(saves'[h].thrown) = "DuplicateIdentifier"
       ]_vars

\* C10's case: a collection holds a document and the insert of another with
\* the same identifier was rejected.
C10_Witness ==
    \E h \in Handlers :
        /\ saves[h].pc = "failed"
        /\ ErrorKind(saves[h].thrown) = "DuplicateIdentifier"
        /\ \E d \in Stored(saves[h].collection) : d.id = saves[h].doc.id
\* handlers g and h have both finished a safe-deposit creation in which the
\* allocator read the same last 4-digit safeId and computed the same safeId
SameAllocation(g, h) ==
    /\ g # h
    /\ FinishedSafeCreation(g)
    /\ FinishedSafeCreation(h)
    /\ saves[g].lastSafe6Digit = saves[h].lastSafe6Digit
    /\ saves[g].doc.id = saves[h].doc.id

\* C25: when two concurrent safe-deposit creations read the same maximum and
\* compute the same safeId, at most one of the inserts is accepted, the
\* collection holds that safeId once, and the creation that was not accepted
\* has failed with the duplicate-identifier error after its single insert: no
\* save() makes a second insert.
C25_SameSafeIdOneAccepted ==
    /\ \A h \in Handlers : saves[h].attempts <= 1
    /\ \A g, h \in Handlers : SameAllocation(g, h) =>
        /\ ~(saves[g].pc = "saved" /\ saves[h].pc = "saved")
        /\ Cardinality({i \in 1..Len(store["safe"]) :
                store["safe"][i].id = saves[h].doc.id}) = 1
        /\ saves[h].pc # "saved" =>
            /\ saves[h].pc = "failed"
            /\ ErrorKind(saves[h].thrown) = "DuplicateIdentifier"
            /\ saves[h].attempts = 1

\* C25's case: the interleaving exists. Two creations read the same maximum,
\* computed the same safeId, one was stored and the other rejected.
C25_Witness ==
    \E g, h \in Handlers :
        /\ SameAllocation(g, h)
        /\ saves[g].pc = "saved"
        /\ saves[h].pc = "failed"
        /\ ErrorKind(saves[h].thrown) = "DuplicateIdentifier"
        /\ saves[h].attempts = 1
        /\ saves[g].doc \in Stored("safe")

-----------------------------------------------------------------------------
(* Properties of one-at-a-time safe-deposit creation, checked under
   SpecSequential. *)

\* the safeId of the n-th creation: SW0001..SW9999, then SW00000001 onwards
NthSafeId(n) ==
    IF n <= 9999
    THEN <<"S", "W">> \o padStart(StringOf(n), 4, "0")
    ELSE <<"S", "W">> \o padStart(StringOf(n - 9999), 8, "0")

\* C11: over safe-deposit creations run one at a time from an empty store,
\* the n-th stored deposit carries SW0001..SW9999 for n <= 9999 and the
\* 8-digit identifiers from SW00000001 after that; identifiers increase
\* strictly within a width tier, and an 8-digit identifier is stored only
\* when SW9999 is.
C11_SequentialSafeIds ==
    LET safes == store["safe"]
    IN  /\ \A i \in 1..Len(safes) : safes[i].id = NthSafeId(i)
        /\ \A i \in 1..(Len(safes) - 1) :
                Len(safes[i].id) = Len(safes[i + 1].id)
                    => StringLess(safes[i].id, safes[i + 1].id)
        /\ \A i \in 1..Len(safes) :
                MatchesSW(safes[i].id, 8)
                    => /\ i > 9999
                       /\ safes[9999].id = <<"S", "W", "9", "9", "9", "9">>
        /\ \A h \in Handlers : saves[h].pc # "failed"

\* the creation after SW9999 has been stored, as SW00000001
C11_Witness ==
    /\ Len(store["safe"]) > 10000
    /\ store["safe"][1].id = <<"S", "W", "0", "0", "0", "1">>
    /\ store["safe"][9999].id = <<"S", "W", "9", "9", "9", "9">>
    /\ store["safe"][10000].id = <<"S", "W", "0", "0", "0", "0", "0", "0", "0", "1">>
    /\ store["safe"][10001].id = <<"S", "W", "0", "0", "0", "0", "0", "0", "0", "2">>

-----------------------------------------------------------------------------
(* Properties of the safe-deposit document, checked under SpecSafe. *)

\* C12 as claimed: once isWithdrawn is true it stays true and withdrawDate
\* keeps its value, the primary balance is not credited again, and a further
\* save that withdraws the deposit fails with IllegalStateTransition.
C12_WithdrawnAtMostOnce ==
    [][safe.isWithdrawn =>
        /\ safe'.isWithdrawn
        /\ safe'.withdrawDate = safe.withdrawDate
        /\ wallet'.primaryWalletBalance <= wallet.primaryWalletBalance
        /\ (SaveSafe /\ safe'.isWithdrawn)
               => ErrorKind(call'.thrown) = "IllegalStateTransition"
    ]_vars

\* C20 as claimed: the insert that completes the creation of a safe deposit
\* of amount A comes with A moved from the primary balance to the safe
\* balance and the total unchanged, or
\* fails with InsufficientFunds and changes nothing when the primary balance
\* is below A; withdrawing a deposit that is not withdrawn, with accrued
\* interest I, sets isWithdrawn, records withdrawDate and moves A + I from the
\* safe balance to the primary balance.
C20_SafeDepositMovesFunds ==
    [][/\ InsertSafeDeposit =>
            IF wallet.primaryWalletBalance < call'.arg
            THEN /\ ErrorKind(call'.thrown) = "InsufficientFunds"
                 /\ <<wallet, safe, store>>' = <<wallet, safe, store>>
            ELSE /\ safe'.amount = call'.arg
                 /\ wallet'.primaryWalletBalance
                        = wallet.primaryWalletBalance - call'.arg
                 /\ wallet'.safeWalletBalance
                        = wallet.safeWalletBalance + call'.arg
                 /\ getTotalBalance(wallet') = getTotalBalance(wallet)
       /\ (SaveSafe /\ ~safe.isWithdrawn /\ safe'.isWithdrawn) =>
            /\ safe'.withdrawDate = now
            /\ wallet'.primaryWalletBalance
                   = wallet.primaryWalletBalance + safe.amount + safe.interest
            /\ wallet'.safeWalletBalance
                   = wallet.safeWalletBalance - (safe.amount + safe.interest)
    ]_vars

-----------------------------------------------------------------------------
(* Atomicity of a status change with its money movement, checked under
   SpecPayment and SpecTopUp. *)

\* C13 as claimed: in every state a payment is COMPLETED if and only if the
\* primary balance has been credited by amount - fee once and both a credit
\* ledger entry and a fee-charge (debit) ledger entry are stored.
C13_PaymentCompletionAtomic ==
    payment.status = "COMPLETED"
        <=> /\ wallet.primaryWalletBalance
                   = NewWallet.primaryWalletBalance + payment.amount - payment.fee
            /\ \E d \in Stored("transactions") : d.type = "CREDIT"
            /\ \E d \in Stored("transactions") : d.type = "DEBIT"

\* C14 as claimed: in every state a top-up request is SUCCESS if and only if
\* the target sub-balance has been credited by its amount and a credit ledger
\* entry is stored; the credit and the ledger entry are present together or
\* not at all.
C14_TopUpApprovalAtomic ==
    LET credited == Balance(wallet, request.wallet)
                        = Balance(NewWallet, request.wallet) + request.amount
        entered == \E d \in Stored("transactions") : d.type = "CREDIT"
    IN  /\ request.status = "SUCCESS" <=> (credited /\ entered)
        /\ credited <=> entered

\* C19 as claimed: a PENDING request has approvalTime, rejectionTime and
\* rejectionReason unset; a SUCCESS request has approvalTime set and the
\* rejection fields unset; a REJECTED request has the rejection fields set
\* and approvalTime unset; approvalTime and rejectionTime are never both set.
C19_ApprovalXorRejection ==
    /\ request.status = "PENDING"
          => /\ request.approvalTime = NullDate
             /\ request.rejectionTime = NullDate
             /\ request.rejectionReason = NullString
    /\ request.status = "SUCCESS"
          => /\ request.approvalTime # NullDate
             /\ request.rejectionTime = NullDate
             /\ request.rejectionReason = NullString
    /\ request.status = "REJECTED"
          => /\ request.approvalTime = NullDate
             /\ request.rejectionTime # NullDate
             /\ request.rejectionReason # NullString
    /\ ~(request.approvalTime # NullDate /\ request.rejectionTime # NullDate)

-----------------------------------------------------------------------------
(* Properties of concurrent requests on one wallet, checked under
   SpecConcurrent. *)

\* what a handler's saved call adds to the primary balance
SavedChange(h) ==
    IF copies[h].pc # "saved" THEN 0
    ELSE IF copies[h].method = "addToPrimaryBalance" THEN copies[h].amount
    ELSE 0 - copies[h].amount

RECURSIVE SavedChanges(_)
SavedChanges(handlers) ==
    IF handlers = {} THEN 0
    ELSE LET h == CHOOSE g \in handlers : TRUE
         IN  SavedChange(h) + SavedChanges(handlers \ {h})

\* C15 as claimed: for every interleaving of handlers that each load the
\* wallet, credit or debit their own copy and save it, the stored primary
\* balance is never negative and equals the initial balance plus the saved
\* credits minus the saved debits.
C15_WalletMutationsSerialized ==
    /\ wallet.primaryWalletBalance >= 0
    /\ wallet.primaryWalletBalance
          = ContendedWallet.primaryWalletBalance + SavedChanges(Handlers)

-----------------------------------------------------------------------------
(* Properties of a creation whose insert is rejected, checked under
   SpecStore. *)

\* C18 as claimed: a creation surfaces a duplicate-identifier failure only
\* after it has allocated an identifier and attempted the insert 5 times.
C18_DuplicateRetriedFiveTimes ==
    \A h \in Handlers :
        (saves[h].pc = "failed"
            /\ ErrorKind(saves[h].thrown) = "DuplicateIdentifier")
        => saves[h].attempts = 5

-----------------------------------------------------------------------------
(* Properties of failing mutations, checked under SpecFailure. *)

\* the entities a mutation may write
Entities == <<wallet, request, payment, transaction, safe, store>>

\* C16: a balance mutator that throws leaves the wallet and every other
\* entity as they were; a debit of more than the sub-balance and a credit or
\* debit of a negative amount throw; an insert that a unique index rejects
\* makes save() throw to its caller, stores nothing and leaves every entity
\* as it was.
C16_FailureChangesNothing ==
    [][/\ (InvokeMutator /\ call'.thrown # NoError) => Entities' = Entities
       /\ (InvokeMutator /\ Entities' # Entities) => call'.thrown = NoError
       /\ (InvokeDebit /\ call'.arg > Balance(wallet, Addressed(call'.method)))
             => ErrorKind(call'.thrown) = "InsufficientFunds"
       /\ \A h \in Handlers :
             (saves[h].pc = "insert" /\ saves'[h].pc = "failed")
                 => /\ saves'[h].thrown # NoError
                    /\ Entities' = Entities
       /\ \A h \in Handlers :
             (saves[h].pc = "insert" /\ saves'[h].pc = "saved")
                 => /\ saves'[h].thrown = NoError
                    /\ store'["safe"] = Append(store["safe"], saves[h].doc)
    ]_vars

\* a debit has thrown on a wallet that holds money and an insert has been
\* rejected while another deposit is stored
C16_Witness ==
    /\ call.method = "subtractFromPrimaryBalance"
    /\ ErrorKind(call.thrown) = "InsufficientFunds"
    /\ wallet.primaryWalletBalance > 0
    /\ \E h \in Handlers :
        /\ saves[h].pc = "failed"
        /\ ErrorKind(saves[h].thrown) = "DuplicateIdentifier"
    /\ Len(store["safe"]) > 0

-----------------------------------------------------------------------------
(* Properties of the transactions collection, checked under SpecLedger. *)

\* the positions of a user's COMPLETED entries of a type
CompletedOf(userId, type) ==
    {i \in 1..Len(ledger) : /\ ledger[i].userId = userId
                            /\ ledger[i].status = "COMPLETED"
                            /\ ledger[i].type = type}

\* the amounts at a set of positions, added up amount by amount
RECURSIVE AmountAt(_, _)
AmountAt(positions, amounts) ==
    IF amounts = {} THEN 0
    ELSE LET a == CHOOSE b \in amounts : TRUE
         IN  a * Cardinality({i \in positions : ledger[i].amount = a})
                + AmountAt(positions, amounts \ {a})

\* C21: getUserStats(userId) returns as totalCredit and totalDebit the sums of
\* the amounts of that user's COMPLETED CREDIT and COMPLETED DEBIT entries, as
\* creditCount and debitCount their numbers and as totalTransactions the sum
\* of the two counts; entries that are PENDING, FAILED or CANCELLED or belong
\* to another user add nothing, and all five values are 0 when the user has
\* no COMPLETED entry.
C21_UserStatsCountCompletedOnly ==
    [][GetUserStats =>
        LET credits == CompletedOf(stats'.userId, "CREDIT")
            debits == CompletedOf(stats'.userId, "DEBIT")
        IN  /\ stats'.totalCredit = AmountAt(credits, LedgerAmounts)
            /\ stats'.totalDebit = AmountAt(debits, LedgerAmounts)
            /\ stats'.creditCount = Cardinality(credits)
            /\ stats'.debitCount = Cardinality(debits)
            /\ stats'.totalTransactions = stats'.creditCount + stats'.debitCount
            /\ (credits \cup debits = {}) =>
                  /\ stats'.totalCredit = 0
                  /\ stats'.totalDebit = 0
                  /\ stats'.totalTransactions = 0
    ]_vars

\* the statistics of u1, who has one COMPLETED credit of 100, were returned
\* while the ledger also holds a COMPLETED debit of u2
C21_Witness ==
    /\ stats = [userId |-> "u1", totalCredit |-> 100, totalDebit |-> 0,
                totalTransactions |-> 1, creditCount |-> 1, debitCount |-> 0]
    /\ Len(ledger) = 2
    /\ \E i \in 1..Len(ledger) :
        /\ ledger[i].userId = "u2"
        /\ ledger[i].status = "COMPLETED"
        /\ ledger[i].type = "DEBIT"

\* C26 as claimed: every transaction that creation stores has status PENDING,
\* whatever status its creator supplied, and a transactionId whose type token
\* (after TXN and the date) is C for a CREDIT and D for a DEBIT.
C26_CreatedPendingWithTypeToken ==
    \A i \in 1..Len(ledger) :
        /\ ledger[i].status = "PENDING"
        /\ ledger[i].transactionId[10]
              = (IF ledger[i].type = "CREDIT" THEN "C" ELSE "D")

-----------------------------------------------------------------------------
(* Properties of the safe-deposit allocator on any collection, checked under
   SpecAllocator. *)

\* the numbers of the stored safeIds of a width
StoredNumbers(digits) ==
    {parseInt(substring(d.id, 2)) :
        d \in {e \in Stored("safe") : MatchesSW(e.id, digits)}}

\* n is the greatest of a set of numbers
IsGreatest(n, numbers) == n \in numbers /\ \A m \in numbers : m <= n

\* handler h has run the allocator and not yet inserted
Allocated(h) ==
    /\ saves[h].collection = "safe"
    /\ saves[h].allocated
    /\ saves[h].pc = "insert"

\* the safeId a handler holds has the given width and number
HoldsSafeId(h, digits, n) ==
    /\ MatchesSW(saves[h].doc.id, digits)
    /\ parseInt(substring(saves[h].doc.id, 2)) = n

\* C23: with no concurrent creation, when the greatest stored 4-digit safeId
\* is SWnnnn with nnnn < 9999 the allocator gives the new deposit SW and
\* nnnn + 1 padded to 4 digits, and when no safe deposit is stored it gives
\* SW0001.
C23_NextFourDigitSafeId ==
    \A h \in Handlers :
        Allocated(h) =>
            /\ Stored("safe") = {}
                  => saves[h].doc.id = <<"S", "W", "0", "0", "0", "1">>
            /\ \A n \in StoredNumbers(4) :
                  (IsGreatest(n, StoredNumbers(4)) /\ n < 9999)
                      => HoldsSafeId(h, 4, n + 1)

\* SW0042 has been stored after SW0041, in a collection that also holds an
\* 8-digit safeId
C23_Witness ==
    /\ \E h \in Handlers :
        /\ saves[h].pc = "saved"
        /\ saves[h].allocated
        /\ saves[h].doc.id = <<"S", "W", "0", "0", "4", "2">>
    /\ \E d \in Stored("safe") : d.id = <<"S", "W", "0", "0", "4", "1">>
    /\ \E d \in Stored("safe") : d.id = <<"S", "W", "0", "0", "4", "2">>

-----------------------------------------------------------------------------
(* Properties of the width of allocated safeIds, checked under SpecTier. *)

\* the greatest number of a set of numbers, 0 for the empty set
Greatest(numbers) ==
    IF numbers = {} THEN 0 ELSE CHOOSE n \in numbers : IsGreatest(n, numbers)

\* the number a safeId carries
NumberOf(id) == parseInt(substring(id, 2))

\* C24 as claimed: once an 8-digit safeId has been allocated, an allocation
\* that comes later yields an 8-digit safeId and never a 4-digit one. Here the
\* allocation of handler h is later than that of handler g: its first query
\* found a 4-digit safeId that was stored after the 8-digit safeId allocated
\* for g.
C24_EightDigitPermanent ==
    \A g, h \in Handlers :
        \A i, k, j \in 1..Len(store["safe"]) :
            (/\ i < k
             /\ k < j
             /\ saves[g].pc = "saved"
             /\ saves[g].allocated
             /\ saves[g].doc = store["safe"][i]
             /\ MatchesSW(store["safe"][i].id, 8)
             /\ saves[h].pc = "saved"
             /\ saves[h].allocated
             /\ saves[h].lastSafe6Digit = store["safe"][k].id
             /\ saves[h].doc = store["safe"][j])
                => /\ MatchesSW(store["safe"][j].id, 8)
                   /\ ~MatchesSW(store["safe"][j].id, 4)

\* C24 as amended: the switch is permanent once SW9999 is stored: the first
\* query of every allocation that starts afterwards finds SW9999. An
\* allocation whose first query found SW9999, or found nothing while its
\* second query finds an 8-digit safeId, yields SW and the greatest 8-digit
\* number its second query finds + 1 (1 when it finds none) padded to 8
\* digits, never a 4-digit safeId: 8 digits up to SW99999999, and the 9-digit
\* SW100000000 after SW99999999. An allocation whose first query found a
\* 4-digit safeId below SW9999 yields that number + 1 in 4 digits, also after
\* 8-digit safeIds have been allocated, and SW0001 when both queries find
\* nothing.
C24_EightDigitOnceExhausted ==
    [][\A h \in Handlers :
        /\ (SaveNewSafeAny(h) /\ saves'[h].allocated /\ 9999 \in StoredNumbers(4))
              => saves'[h].lastSafe6Digit = <<"S", "W", "9", "9", "9", "9">>
        /\ PreSaveSafe(h) =>
              LET first == saves[h].lastSafe6Digit
                  last8 == Greatest(StoredNumbers(8))
                  id == saves'[h].doc.id
              IN  IF first = <<"S", "W", "9", "9", "9", "9">>
                        \/ (first = NullId /\ StoredNumbers(8) # {})
                  THEN /\ NumberOf(id) = last8 + 1
                       /\ ~MatchesSW(id, 4)
                       /\ IF last8 < 99999999
                          THEN MatchesSW(id, 8)
                          ELSE id = <<"S", "W", "1", "0", "0", "0", "0", "0", "0", "0", "0">>
                  ELSE IF first = NullId
                  THEN id = <<"S", "W", "0", "0", "0", "1">>
                  ELSE /\ MatchesSW(id, 4)
                       /\ NumberOf(id) = NumberOf(first) + 1
    ]_vars

\* C24's case: with SW9999 and SW00000041 stored, an allocation whose first
\* query found SW9999 has stored SW00000042
C24_Witness ==
    \E h \in Handlers :
        /\ saves[h].pc = "saved"
        /\ saves[h].allocated
        /\ saves[h].lastSafe6Digit = <<"S", "W", "9", "9", "9", "9">>
        /\ saves[h].doc.id = <<"S", "W", "0", "0", "0", "0", "0", "0", "4", "2">>
        /\ saves[h].doc \in Stored("safe")
        /\ \E d \in Stored("safe") :
                d.id = <<"S", "W", "0", "0", "0", "0", "0", "0", "4", "1">>

-----------------------------------------------------------------------------
(* Properties of the status operations next to a funded wallet, checked under
   SpecStatus. *)

\* C27: markAsCompleted, markAsFailed, markAsCancelled and updateStatus on a
\* transaction, and reject(reason) on a top-up request, leave the primary and
\* the safe balance of every wallet as they were: the wallet document and the
\* copies the handlers hold.
C27_StatusOperationsMoveNoFunds ==
    [][(InvokeTransactionStatus \/ InvokeReject) =>
        /\ wallet'.primaryWalletBalance = wallet.primaryWalletBalance
        /\ wallet'.safeWalletBalance = wallet.safeWalletBalance
        /\ copies' = copies
    ]_vars

\* C27's case: a transaction was taken to COMPLETED and a top-up request was
\* rejected while the wallet holds funds in both sub-balances.
C27_Witness ==
    /\ transaction.status = "COMPLETED"
    /\ request.status = "REJECTED"
    /\ wallet.primaryWalletBalance > 0
    /\ wallet.safeWalletBalance > 0

-----------------------------------------------------------------------------
(* Properties of the identifiers of saved documents, checked under
   SpecIdentifier. *)

\* id is an identifier the pre-save hook of the collection makes
IsHookId(collection, id) ==
    IF collection = "safe"
    THEN MatchesSW(id, 4) \/ MatchesSW(id, 8)
    ELSE \E type \in TransactionTypes \cup {"none"}, token \in Tokens :
            id = HookId(collection, type, token)

\* the save() of handler h has got past its pre-save hook
PastHook(h) ==
    \/ saves[h].pc \in {"insert", "saved"}
    \/ saves[h].pc = "failed" /\ ErrorKind(saves[h].thrown) = "DuplicateIdentifier"

\* C29: the first save of a new record gives it an identifier made by the
\* hook exactly when its creator supplied none, and keeps a supplied
\* identifier as given; and no save changes the identifier of a record that
\* is already stored, nor removes a stored record.
C29_IdentifierAssignedOnce ==
    /\ [](\A h \in Handlers : PastHook(h) =>
            IF saves[h].allocated
            THEN /\ IsHookId(saves[h].collection, saves[h].doc.id)
                 /\ saves[h].doc.id \notin CreatorIds
            ELSE saves[h].doc.id \in CreatorIds \ {NullId})
    /\ [][\A c \in Collections :
            /\ Len(store'[c]) >= Len(store[c])
            /\ \A i \in 1..Len(store[c]) : store'[c][i].id = store[c][i].id
       ]_vars

\* C29's case: a record stored under the identifier its creator supplied has
\* been saved again and still carries it, next to a stored record whose
\* identifier the hook made.
C29_Witness ==
    \E h \in Handlers :
        /\ saves[h].pc = "updated"
        /\ saves[h].doc.id \in CreatorIds \ {NullId}
        /\ saves[h].doc \in Stored(saves[h].collection)
        /\ \E c \in Collections : \E d \in Stored(c) :
                IsHookId(c, d.id) /\ d.id \notin CreatorIds

====
